---- MODULE Spec2Model ----
(***************************************************************************)
(* Layer compositor, scene controller and declarative scene interpreter    *)
(* of the canvas engine (src/js/core/LayerManager.js,                     *)
(* src/js/scenes/ConfigurableScene.js, src/js/scenes/PongScene.js and the *)
(* engine entry point).                                                    *)
(***************************************************************************)
EXTENDS Integers, Sequences, FiniteSets, TLC

(***************************************************************************)
(* Bounds of the model.                                                    *)
(***************************************************************************)
\* Test entities offered to the bare LayerManager API are 0..MaxEntities.
MaxEntities == 2
\* addToLayer is not offered once the layers hold this many entries.
MaxHeld == 2
\* update is not offered once it would push stateTimer beyond this many ticks.
MaxTimer == 3
\* Click handlers dispatched by one update before it is taken not to return.
MaxDispatch == 4
\* The easing functions are compared at the progress values k / EasingSteps.
EasingSteps == 8
\* A state activation is not offered once the layers would hold more than this.
MaxSceneHeld == 6

(***************************************************************************)
(* Entities.  An entity is an object identity: <<owner, state, index,     *)
(* generation, hasRender>>.  owner 0 marks a test object handed straight   *)
(* to the LayerManager API; hasRender tells whether the object has a      *)
(* render function.                                                        *)
(***************************************************************************)
NoScene == 0

TestEntity(k) == <<NoScene, 0, k, 0, k # 0>>

TestEntities == {TestEntity(k) : k \in 0..MaxEntities}

Renderable(e) == e[5]

Range(s) == {s[i] : i \in 1..Len(s)}

\* Sequencing of statements: v is computed once and F continues with it.
Then(v, F(_)) == CHOOSE r \in {F(x) : x \in {v}} : TRUE

(***************************************************************************)
(* LayerManager                                                            *)
(***************************************************************************)
LAYERS ==
  [BG_FAR |-> 0, BG_NEAR |-> 1, VIDEO_IMAGE |-> 2, SHAPES |-> 3,
   SPRITES |-> 4, TEXT |-> 5, UI_BUTTONS |-> 6]

LayerNames == DOMAIN LAYERS

\* Layer names used by callers that are not in the enumeration.
UnknownLayerNames == {"MAIN", "UI"}

\* constructor: an empty array for each layer
EmptyLayers == [l \in LayerNames |-> <<>>]

IndexOf(s, e) ==
  IF e \in Range(s) THEN CHOOSE i \in 1..Len(s) :
                            s[i] = e /\ \A j \in 1..(i - 1) : s[j] # e
                    ELSE 0

RemoveAt(s, i) == [j \in 1..(Len(s) - 1) |-> IF j < i THEN s[j] ELSE s[j + 1]]

AddToLayerAnyName(L, e, layerName) ==
  LET name == IF layerName \in LayerNames THEN layerName ELSE "SPRITES"
  IN IF e \in Range(L[name]) THEN L ELSE [L EXCEPT ![name] = Append(@, e)]

AddToLayerNoDedupe(L, e, layerName) ==
  IF layerName \notin LayerNames THEN L
  ELSE [L EXCEPT ![layerName] = Append(@, e)]

AddToLayer(L, e, layerName) ==
  IF layerName \notin LayerNames THEN L
  ELSE IF e \in Range(L[layerName]) THEN L
  ELSE [L EXCEPT ![layerName] = Append(@, e)]

RemoveFromLayer(L, e, layerName) ==
  IF layerName \notin LayerNames THEN L
  ELSE LET index == IndexOf(L[layerName], e)
       IN IF index > 0 THEN [L EXCEPT ![layerName] = RemoveAt(@, index)]
          ELSE L

ClearLayer(L, layerName) ==
  IF layerName \in LayerNames THEN [L EXCEPT ![layerName] = <<>>] ELSE L

ClearAll(L) == [l \in LayerNames |-> <<>>]

\* Object.keys(LAYERS).sort((a, b) => rank[a] - rank[b])
RECURSIVE SortByRank(_, _)
SortByRank(names, rank) ==
  IF names = {} THEN <<>>
  ELSE LET first == CHOOSE a \in names : \A b \in names : rank[a] - rank[b] <= 0
       IN <<first>> \o SortByRank(names \ {first}, rank)

DescendingLayers == SortByRank(LayerNames, [n \in LayerNames |-> 0 - LAYERS[n]])

SortedLayers == SortByRank(LayerNames, LAYERS)

\* render: the sequence of entity.render(ctx) calls, as <<layer, entity>>.
RECURSIVE RenderFrom(_, _)
RenderFrom(L, i) ==
  IF i > Len(SortedLayers) THEN <<>>
  ELSE LET layerName == SortedLayers[i]
           kept == SelectSeq(L[layerName], Renderable)
       IN [k \in 1..Len(kept) |-> <<layerName, kept[k]>>] \o RenderFrom(L, i + 1)

Render(L) == RenderFrom(L, 1)

TotalHeld(L) ==
  LET RECURSIVE Sum(_)
      Sum(S) == IF S = {} THEN 0
                ELSE LET l == CHOOSE x \in S : TRUE
                     IN Len(L[l]) + Sum(S \ {l})
  IN Sum(LayerNames)

VARIABLES
  layerEntities,  \* LayerManager.layerEntities
  config,         \* per scene object: the document it was built from (a key)
  scenes,         \* SceneManager.scenes: name -> scene object (NoScene: unset)
  currentScene,   \* SceneManager.currentScene (NoScene: null)
  sceneState,     \* per ConfigurableScene object: the fields its methods assign
  hung,           \* an update call is looping and will not return
  last,           \* what the last engine operation did (its calls, in order)
  lastCall,       \* kind of the last LayerManager call that may modify a layer
  renderLog,      \* the entity.render calls of the frame drawn last
  rendered        \* a frame was drawn since the layers were last touched

vars == <<layerEntities, config, scenes, currentScene, sceneState, hung, last,
          lastCall, renderLog, rendered>>

layerVars == <<lastCall, renderLog, rendered>>

sceneVars == <<config, scenes, currentScene, sceneState, hung, last>>

(***************************************************************************)
(* Numbers.  A JavaScript number is kept as an exact fraction <<n, d>>,    *)
(* d > 0, in lowest terms; NaN and undefined are the two values with d = 0.*)
(* Times are counted in ticks.                                             *)
(***************************************************************************)
NaN == <<0, 0>>

Undefined == <<1, 0>>

IsNumber(v) == v[2] # 0

Abs(n) == IF n < 0 THEN 0 - n ELSE n

RECURSIVE Gcd(_, _)
Gcd(a, b) == IF b = 0 THEN a ELSE CHOOSE r \in {Gcd(b, m) : m \in {a % b}} : TRUE

\* An operation on two operands: both are computed once and F is applied to
\* their values.
Strict(a, b, F(_, _)) == CHOOSE r \in {F(x, y) : x \in {a}, y \in {b}} : TRUE

Fraction(n, d) ==
  Strict(n, d, LAMBDA x, y :
    IF y = 0 THEN NaN
    ELSE Then(Gcd(Abs(x), Abs(y)), LAMBDA g :
           IF y < 0 THEN <<(0 - x) \div g, (0 - y) \div g>>
           ELSE <<x \div g, y \div g>>))

Num(n) == <<n, 1>>

Plus(a, b) ==
  Strict(a, b, LAMBDA x, y :
    IF IsNumber(x) /\ IsNumber(y)
    THEN Fraction(x[1] * y[2] + y[1] * x[2], x[2] * y[2]) ELSE NaN)

Minus(a, b) ==
  Strict(a, b, LAMBDA x, y :
    IF IsNumber(x) /\ IsNumber(y)
    THEN Fraction(x[1] * y[2] - y[1] * x[2], x[2] * y[2]) ELSE NaN)

Times(a, b) ==
  Strict(a, b, LAMBDA x, y :
    IF IsNumber(x) /\ IsNumber(y) THEN Fraction(x[1] * y[1], x[2] * y[2]) ELSE NaN)

\* a / b; no divisor of the program is 0 (duration is "duration || 1")
Over(a, b) ==
  Strict(a, b, LAMBDA x, y :
    IF IsNumber(x) /\ IsNumber(y) THEN Fraction(x[1] * y[2], x[2] * y[1]) ELSE NaN)

\* a < b and a >= b: both false when either side is not a number
Less(a, b) ==
  Strict(a, b, LAMBDA x, y : IsNumber(x) /\ IsNumber(y) /\ x[1] * y[2] < y[1] * x[2])

AtLeast(a, b) ==
  Strict(a, b, LAMBDA x, y : IsNumber(x) /\ IsNumber(y) /\ x[1] * y[2] >= y[1] * x[2])

MathMinFirst(a, b) == a

\* Math.min(a, b)
MathMin(a, b) ==
  Strict(a, b, LAMBDA x, y :
    IF IsNumber(x) /\ IsNumber(y) THEN (IF Less(y, x) THEN y ELSE x) ELSE NaN)

\* v || fallback: 0, NaN and undefined are falsy
OrElse(v, fallback) == IF IsNumber(v) /\ v[1] # 0 THEN v ELSE fallback

\* v !== undefined ? v : fallback
IfDefined(v, fallback) == IF v = Undefined THEN fallback ELSE v

\* One tick is half a second, and Math.sin(effectiveElapsed * 4) of a whole
\* number k of ticks is sin(2k), here to three decimals.
Sin4(t) ==
  LET k == IF t[2] = 1 THEN t[1] ELSE 0 - 1
  IN
  CASE k = 0 -> Fraction(0, 1000)
    [] k = 1 -> Fraction(909, 1000)
    [] k = 2 -> Fraction(0 - 757, 1000)
    [] k = 3 -> Fraction(0 - 279, 1000)
    [] k = 4 -> Fraction(989, 1000)
    [] k = 5 -> Fraction(0 - 544, 1000)
    [] k = 6 -> Fraction(0 - 537, 1000)
    [] k = 7 -> Fraction(991, 1000)
    [] k = 8 -> Fraction(0 - 288, 1000)
    [] OTHER -> NaN

(***************************************************************************)
(* Scene configuration documents                                           *)
(***************************************************************************)
SceneIds == 1..5

NoTransition == [type |-> "", duration |-> 0, nextState |-> "", nextScene |-> ""]

TimerToState(d, n) == [type |-> "timer", duration |-> d, nextState |-> n, nextScene |-> ""]

TimerToScene(d, n) == [type |-> "timer", duration |-> d, nextState |-> "", nextScene |-> n]

NoAction == [action |-> "", target |-> ""]

OnClick(a, t) == [action |-> a, target |-> t]

NoAnimation ==
  [type |-> "", duration |-> Undefined, delay |-> Undefined, easing |-> "",
   direction |-> ""]

Animation(type, duration, delay, easing, direction) ==
  [type |-> type, duration |-> duration, delay |-> delay, easing |-> easing,
   direction |-> direction]

\* The numeric fields of an entity config, none of them given.
NoProps ==
  [x |-> Undefined, y |-> Undefined, width |-> Undefined, height |-> Undefined,
   alpha |-> Undefined, scaleX |-> Undefined, scaleY |-> Undefined]

\* An entity config: its kind, its id ("" when it has none), the spot of the
\* canvas its rectangle covers (0: none the pointer is tried at) and onClick.
EntityConfig(type, id, spot, onClick) ==
  [type |-> type, id |-> id, spot |-> spot, onClick |-> onClick,
   props |-> NoProps, animation |-> NoAnimation]

Animated(entityConfig, animation) == [entityConfig EXCEPT !.animation = animation]

StateConfig(name, clearLayers, layers, transition) ==
  [name |-> name, clearLayers |-> clearLayers, layers |-> layers,
   transition |-> transition]

AllHooks == {"exit", "enter", "populateLayers"}

\* Scene "Intro".  A goes to B by timer or button, B to C by button, C adds
\* to what is shown and asks for states that do not exist; D and E lead to
\* each other by buttons at different spots, and a button of E names E.
IntroStates ==
  << StateConfig("A", TRUE,
       << <<"UI_BUTTONS",
            << EntityConfig("button", "go", 1, OnClick("switchState", "B")),
               EntityConfig("button", "menu", 2, OnClick("switchScene", "Menu")) >> >>,
          <<"TEXT", << EntityConfig("text", "title", 0, NoAction) >> >> >>,
       TimerToState(2, "B")),
     StateConfig("B", TRUE,
       << <<"TEXT", << EntityConfig("text", "done", 0, NoAction) >> >>,
          <<"UI_BUTTONS",
            << EntityConfig("button", "next", 1, OnClick("switchState", "C")) >> >> >>,
       TimerToScene(3, "Menu")),
     StateConfig("C", FALSE,
       << <<"SPRITES",
            << EntityConfig("sprite", "", 0, NoAction),
               Animated(EntityConfig("video", "clip", 0, NoAction),
                        Animation("fadeIn", Num(2), Undefined, "", "")) >> >>,
          <<"HUD", << EntityConfig("text", "hint", 0, NoAction) >> >>,
          <<"UI_BUTTONS",
            << EntityConfig("button", "lost", 2, OnClick("switchState", "Nope")),
               EntityConfig("button", "beep", 3, OnClick("playSound", "")) >> >> >>,
       TimerToState(3, "Nope")),
     StateConfig("D", TRUE,
       << <<"UI_BUTTONS",
            << EntityConfig("button", "flip", 1, OnClick("switchState", "E")) >> >> >>,
       NoTransition),
     StateConfig("E", TRUE,
       << <<"TEXT",
            << Animated(EntityConfig("text", "over", 0, NoAction),
                        Animation("fadeIn", Num(2), Num(1), "linear", "")) >> >>,
          <<"UI_BUTTONS",
            << EntityConfig("button", "flop", 2, OnClick("switchState", "D")),
               EntityConfig("button", "again", 3, OnClick("switchState", "E")) >> >> >>,
       NoTransition) >>

\* canvasSize as the constructor sets it
DefaultCanvas == [width |-> Num(1080), height |-> Num(1920)]

ConfigurableScene(name, states) ==
  [kind |-> "config", sceneName |-> name, states |-> states, hooks |-> AllHooks,
   canvasSize |-> DefaultCanvas]

PongScene ==
  [kind |-> "pong", sceneName |-> "PongScene", states |-> <<>>, hooks |-> AllHooks,
   canvasSize |-> DefaultCanvas]

\* Any other object handed to changeScene, with the hooks it happens to have.
PlainScene(hooks) ==
  [kind |-> "plain", sceneName |-> "", states |-> <<>>, hooks |-> hooks,
   canvasSize |-> DefaultCanvas]

\* A scene of one state showing one animated entity.  The key names the
\* entity's kind, the animation's type, duration, delay, easing and direction,
\* and the alpha and scale the entity config gives.
AnimatedEntity(key) ==
  Animated([EntityConfig(key[2], "e", 0, NoAction) EXCEPT
              !.props = [x |-> Num(40), y |-> Num(60),
                         width |-> Num(200), height |-> Num(100),
                         alpha |-> key[8], scaleX |-> key[9], scaleY |-> key[9]]],
           Animation(key[3], key[4], key[5], key[6], key[7]))

AnimStates(key) ==
  << StateConfig("S", TRUE, << <<"SPRITES", << AnimatedEntity(key) >> >> >>,
                 NoTransition) >>

\* Scene "Loop": its first state P does not clear; P goes to Q by timer and
\* has a button that leaves for another scene.
LoopStates ==
  << StateConfig("P", FALSE,
       << <<"UI_BUTTONS",
            << EntityConfig("button", "menu", 2, OnClick("switchScene", "Menu")) >> >>,
          <<"TEXT", << EntityConfig("text", "a", 0, NoAction) >> >> >>,
       TimerToState(2, "Q")),
     StateConfig("Q", TRUE,
       << <<"TEXT", << EntityConfig("text", "b", 0, NoAction) >> >> >>,
       NoTransition) >>

\* The document a scene object was built from, by the key the model keeps.
Document(key) ==
  CASE key[1] = "Intro" -> ConfigurableScene("Intro", IntroStates)
    [] key[1] = "Loop" -> ConfigurableScene("Loop", LoopStates)
    [] key[1] = "Anim" -> ConfigurableScene("Anim", AnimStates(key))
    [] key[1] = "Pong" -> PongScene
    [] key[1] = "EnterOnly" -> PlainScene({"enter"})
    [] key[1] = "NoEnter" -> PlainScene({"exit", "populateLayers"})
    [] OTHER -> ConfigurableScene("Empty", <<>>)

\* The scene objects of the engine-level runs.
SceneCatalog ==
  [s \in SceneIds |->
     CASE s = 1 -> <<"Intro">>
       [] s = 2 -> <<"Pong">>
       [] s = 3 -> <<"EnterOnly">>
       [] s = 4 -> <<"NoEnter">>
       [] OTHER -> <<"Empty">>]

\* Names a scene is registered or asked for under.
SceneNames == {"Intro", "Menu"}

\* The register(name, scene) calls offered.
Registrations == {<<"Intro", 1>>, <<"Menu", 2>>, <<"Menu", 3>>}

\* The state names the SWITCH_STATE message is sent with.
StateNamesAsked == {"A", "B", "C", "D", "E", "Nope"}

PointerSpots == {1, 2, 3}

\* The values of deltaTime offered to update, in ticks.
TickLengths == {1, 2}

(***************************************************************************)
(* JavaScript Map: a list of entries; clear() empties every entry in place *)
(* and set() of a new key appends, so a running iterator meets the entries *)
(* added after a clear().                                                  *)
(***************************************************************************)
NoEntity == <<NoScene, 0, 0, 0, FALSE>>

Emptied == <<"", NoEntity>>

MapClear(m) == [i \in 1..Len(m) |-> Emptied]

MapHas(m, key) == \E i \in 1..Len(m) : m[i] # Emptied /\ m[i][1] = key

MapSet(m, key, value) ==
  IF MapHas(m, key)
  THEN [i \in 1..Len(m) |-> IF m[i] # Emptied /\ m[i][1] = key THEN <<key, value>> ELSE m[i]]
  ELSE Append(m, <<key, value>>)

\* The entries left once no iterator is running.
MapEntries(m) == SelectSeq(m, LAMBDA x : x # Emptied)

(***************************************************************************)
(* The engine's state while one operation runs: the layers, the current    *)
(* scene, every scene object's fields, and a record g of what the          *)
(* operation has done so far.                                              *)
(***************************************************************************)
\* ConfigurableScene constructor (currentStateName null is "")
NewSceneState ==
  [currentStateIndex |-> 0, currentStateName |-> "", stateTimer |-> 0,
   entities |-> <<>>, entityAnimations |-> <<>>]

\* Nothing done yet: no changeScene call, no transition fired, no click
\* handler dispatched, no state activated, no warning logged.
NothingDone ==
  [trace |-> <<>>, fired |-> FALSE, dispatched |-> 0, activations |-> 0,
   atPopulate |-> <<>>, strayWrite |-> FALSE, warned |-> {}]

Engine ==
  [layers |-> layerEntities, cur |-> currentScene, sc |-> sceneState,
   hung |-> FALSE, g |-> NothingDone]

\* The scene object s as loadFromConfig (or its class) made it.
SceneOf(s) == Document(config[s])

States(s) == SceneOf(s).states

HasHook(s, hook) == hook \in SceneOf(s).hooks

\* Every object some layer, entity map or animation table still refers to.
Live(w) ==
  UNION {Range(w.layers[l]) : l \in LayerNames}
    \cup UNION {{x[2] : x \in Range(w.sc[s].entities)} : s \in DOMAIN w.sc}
    \cup UNION {{a.entity : a \in Range(w.sc[s].entityAnimations)} : s \in DOMAIN w.sc}

\* A new object: told apart from every object still referred to.
NewObject(w, s, i, idx) ==
  Then(Live(w), LAMBDA live :
    LET gen == CHOOSE g \in 0..Cardinality(live) :
                 /\ <<s, i, idx, g, TRUE>> \notin live
                 /\ \A h \in 0..(g - 1) : <<s, i, idx, h, TRUE>> \in live
    IN <<s, i, idx, gen, TRUE>>)

EntityKinds == {"sprite", "button", "text", "shape"}

EntityConfigOf(e) == SceneOf(e[1]).states[e[2]].layers[e[3] \div 10][2][e[3] % 10]

CreateEntityAnyKind(w, s, i, idx, entityConfig) == NewObject(w, s, i, idx)

\* _createEntity: null (NoEntity) for a kind it does not know
CreateEntity(w, s, i, idx, entityConfig) ==
  IF entityConfig.type \in EntityKinds THEN NewObject(w, s, i, idx) ELSE NoEntity

\* Object.entries(state.layers) with each layer's list: <<layerName, place>>
RECURSIVE LayerEntries(_, _)
LayerEntries(layers, p) ==
  IF p > Len(layers) THEN <<>>
  ELSE [k \in 1..Len(layers[p][2]) |-> <<layers[p][1], p * 10 + k>>]
         \o LayerEntries(layers, p + 1)

\* Sprite's own starting alpha and scale, where the config gives none
SpriteDefaults == [alpha |-> Num(1), scaleX |-> Num(1), scaleY |-> Num(1)]

\* _createSprite, _createButton, _createText, _createShape: the numeric
\* fields of the object made (a field the object does not have is undefined)
CreatedProps(entityConfig) ==
  LET c == entityConfig.props
      at == [x |-> OrElse(c.x, Num(0)), y |-> OrElse(c.y, Num(0)),
             width |-> Undefined, height |-> Undefined,
             alpha |-> IfDefined(c.alpha, Num(1)),
             scaleX |-> Undefined, scaleY |-> Undefined]
  IN CASE entityConfig.type = "sprite" ->
            [at EXCEPT !.width = OrElse(c.width, Num(0)),
                       !.height = OrElse(c.height, Num(0)),
                       !.alpha = IfDefined(c.alpha, SpriteDefaults.alpha),
                       !.scaleX = IfDefined(c.scaleX, SpriteDefaults.scaleX),
                       !.scaleY = IfDefined(c.scaleY, SpriteDefaults.scaleY)]
       [] entityConfig.type = "button" ->
            [at EXCEPT !.width = OrElse(c.width, Num(200)),
                       !.height = OrElse(c.height, Num(80))]
       [] entityConfig.type = "shape" ->
            [at EXCEPT !.width = OrElse(c.width, Num(100)),
                       !.height = OrElse(c.height, Num(100))]
       [] OTHER -> at

\* _setSlideInStart
SetSlideInStart(props, direction, canvasSize) ==
  CASE direction = "top" ->
         [props EXCEPT !.y = Minus(Minus(Num(0), props.height), Num(100))]
    [] direction = "bottom" -> [props EXCEPT !.y = Plus(canvasSize.height, Num(100))]
    [] direction = "left" ->
         [props EXCEPT !.x = Minus(Minus(Num(0), props.width), Num(100))]
    [] direction = "right" -> [props EXCEPT !.x = Plus(canvasSize.width, Num(100))]
    [] OTHER -> props

SetupAnimationKeepsLook(w, s, entity, animConfig) ==
  LET created == CreatedProps(EntityConfigOf(entity))
      animation ==
        [entity |-> entity,
         type |-> animConfig.type,
         duration |-> OrElse(animConfig.duration, Num(1)),
         delay |-> OrElse(animConfig.delay, Num(0)),
         easing |-> IF animConfig.easing = "" THEN "linear" ELSE animConfig.easing,
         direction |-> IF animConfig.direction = "" THEN "top" ELSE animConfig.direction,
         elapsed |-> Num(0),
         completed |-> FALSE,
         initialAlpha |-> created.alpha,
         initialX |-> created.x,
         initialY |-> created.y,
         initialScaleX |-> OrElse(created.scaleX, Num(1)),
         initialScaleY |-> OrElse(created.scaleY, Num(1)),
         props |-> created]
  IN [w EXCEPT !.sc[s].entityAnimations = Append(@, animation)]

\* _setupAnimation: the animation record, with the entity's numeric fields
\* (props) kept beside it, as nothing but its animation assigns them
SetupAnimation(w, s, entity, animConfig) ==
  LET created == CreatedProps(EntityConfigOf(entity))
      direction == IF animConfig.direction = "" THEN "top" ELSE animConfig.direction
      start ==
        CASE animConfig.type = "fadeIn" -> [created EXCEPT !.alpha = Num(0)]
          [] animConfig.type = "slideIn" ->
               SetSlideInStart(created, direction, SceneOf(s).canvasSize)
          [] animConfig.type = "scale" ->
               [created EXCEPT !.scaleX = Num(0), !.scaleY = Num(0)]
          [] OTHER -> created
      animation ==
        [entity |-> entity,
         type |-> animConfig.type,
         duration |-> OrElse(animConfig.duration, Num(1)),
         delay |-> OrElse(animConfig.delay, Num(0)),
         easing |-> IF animConfig.easing = "" THEN "linear" ELSE animConfig.easing,
         direction |-> direction,
         elapsed |-> Num(0),
         completed |-> FALSE,
         initialAlpha |-> created.alpha,
         initialX |-> created.x,
         initialY |-> created.y,
         initialScaleX |-> OrElse(created.scaleX, Num(1)),
         initialScaleY |-> OrElse(created.scaleY, Num(1)),
         props |-> start]
  IN [w EXCEPT !.sc[s].entityAnimations = Append(@, animation)]

\* _setupState, the two loops from entry k on
RECURSIVE SetupEntities(_, _, _, _, _)
SetupEntities(w, s, i, entries, k) ==
  IF k > Len(entries) THEN w
  ELSE
    LET layerName == entries[k][1]
        idx == entries[k][2]
        entityConfig == States(s)[i].layers[idx \div 10][2][idx % 10]
    IN Then(CreateEntity(w, s, i, idx, entityConfig), LAMBDA entity :
         IF entity = NoEntity THEN SetupEntities(w, s, i, entries, k + 1)
         ELSE
           LET w1 == [w EXCEPT !.layers = AddToLayer(@, entity, layerName)]
               w2 == IF entityConfig.id # ""
                     THEN [w1 EXCEPT !.sc[s].entities = MapSet(@, entityConfig.id, entity)]
                     ELSE w1
               w3 == IF entityConfig.animation.type # ""
                     THEN SetupAnimation(w2, s, entity, entityConfig.animation)
                     ELSE w2
           IN Then(w3, LAMBDA w4 : SetupEntities(w4, s, i, entries, k + 1)))

SetupStateAlwaysClears(w, s, i) ==
  Then([w EXCEPT !.layers = ClearAll(@),
                 !.sc[s].entities = MapClear(@),
                 !.sc[s].entityAnimations = <<>>], LAMBDA cleared :
    Then(LayerEntries(States(s)[i].layers, 1), LAMBDA entries :
      Then(SetupEntities(cleared, s, i, entries, 1), LAMBDA w2 :
        [w2 EXCEPT !.g.activations = @ + 1,
                   !.g.strayWrite = @ \/ (s # w.cur /\ w2.layers # w.layers)])))

\* _setupState(this.states[i])
SetupState(w, s, i) ==
  LET state == States(s)[i]
      w1 == IF state.clearLayers
            THEN [w EXCEPT !.layers = ClearAll(@),
                           !.sc[s].entities = MapClear(@),
                           !.sc[s].entityAnimations = <<>>]
            ELSE w
  IN Then(w1, LAMBDA cleared :
       Then(LayerEntries(state.layers, 1), LAMBDA entries :
         Then(SetupEntities(cleared, s, i, entries, 1), LAMBDA w2 :
           [w2 EXCEPT !.g.activations = @ + 1,
                      !.g.strayWrite = @ \/ (s # w.cur /\ w2.layers # w.layers)])))

\* states.findIndex(s => s.name === stateName), 0 for -1
FindIndex(states, stateName) ==
  IF \E i \in 1..Len(states) : states[i].name = stateName
  THEN CHOOSE i \in 1..Len(states) :
         states[i].name = stateName /\ \A j \in 1..(i - 1) : states[j].name # stateName
  ELSE 0

SwitchToStateResetsAnyway(w, s, stateName) ==
  LET stateIndex == FindIndex(States(s), stateName)
  IN IF stateIndex = 0
     THEN [w EXCEPT !.sc[s].stateTimer = 0, !.g.warned = @ \cup {"State not found"}]
     ELSE Then([w EXCEPT !.sc[s].currentStateIndex = stateIndex - 1,
                         !.sc[s].currentStateName = stateName,
                         !.sc[s].stateTimer = 0],
               LAMBDA w1 : SetupState(w1, s, stateIndex))

\* _switchToState
SwitchToState(w, s, stateName) ==
  LET stateIndex == FindIndex(States(s), stateName)
  IN IF stateIndex = 0 THEN [w EXCEPT !.g.warned = @ \cup {"State not found"}]
     ELSE Then([w EXCEPT !.sc[s].currentStateIndex = stateIndex - 1,
                         !.sc[s].currentStateName = stateName,
                         !.sc[s].stateTimer = 0],
               LAMBDA w1 : SetupState(w1, s, stateIndex))

(***************************************************************************)
(* Scene hooks                                                             *)
(***************************************************************************)
\* exit(): ConfigurableScene drops its tracked entities and animations
Exit(w, s) ==
  IF SceneOf(s).kind = "config"
  THEN [w EXCEPT !.sc[s].entities = MapClear(@), !.sc[s].entityAnimations = <<>>]
  ELSE w

EnterKeepsName(w, s) ==
  IF SceneOf(s).kind = "config"
  THEN [w EXCEPT !.sc[s].currentStateIndex = 0, !.sc[s].stateTimer = 0]
  ELSE w

\* enter(): ConfigurableScene starts over at its first state
Enter(w, s) ==
  IF SceneOf(s).kind = "config"
  THEN LET w1 == [w EXCEPT !.sc[s].currentStateIndex = 0, !.sc[s].stateTimer = 0]
       IN IF Len(States(s)) > 0
          THEN [w1 EXCEPT !.sc[s].currentStateName = States(s)[1].name]
          ELSE w1
  ELSE w

\* PongScene.populateLayers: the background, paddles, ball and score
PongPopulate(w, s) ==
  Then(NewObject(w, s, 0, 1), LAMBDA bg :
    LET w1 == [w EXCEPT !.layers = AddToLayer(@, bg, "BG_FAR")]
        w2 == [w1 EXCEPT !.layers = AddToLayer(@, <<s, 0, 2, 0, TRUE>>, "MAIN")]
        w3 == [w2 EXCEPT !.layers = AddToLayer(@, <<s, 0, 3, 0, TRUE>>, "MAIN")]
    IN Then([w3 EXCEPT !.layers = AddToLayer(@, <<s, 0, 4, 0, TRUE>>, "MAIN")],
            LAMBDA w4 :
              Then(NewObject(w4, s, 0, 5), LAMBDA scoreDisplay :
                [w4 EXCEPT !.layers = AddToLayer(@, scoreDisplay, "UI")])))

\* populateLayers()
PopulateLayers(w, s) ==
  CASE SceneOf(s).kind = "config" ->
         IF Len(States(s)) > 0 THEN SetupState(w, s, 1) ELSE w
    [] SceneOf(s).kind = "pong" -> PongPopulate(w, s)
    [] OTHER -> w

(***************************************************************************)
(* SceneManager                                                            *)
(***************************************************************************)
Logged(w, step) ==
  [w EXCEPT !.g.trace[Len(w.g.trace)].steps = Append(@, step)]

\* One statement of changeScene, by the name it is logged under.
ChangeSceneStep(w, old, new, step) ==
  CASE step = "exit" ->
         IF old # NoScene /\ HasHook(old, "exit") THEN Logged(Exit(w, old), step) ELSE w
    [] step = "setEngine" -> Logged(w, step)
    [] step = "clearAll" -> Logged([w EXCEPT !.layers = ClearAll(@)], step)
    [] step = "setCurrent" -> Logged([w EXCEPT !.cur = new], step)
    [] step = "enter" ->
         IF HasHook(new, "enter") THEN Logged(Enter(w, new), step) ELSE w
    [] OTHER ->
         IF HasHook(new, "populateLayers")
         THEN Then(Logged([w EXCEPT !.g.atPopulate = Append(@, TotalHeld(w.layers))], step),
                   LAMBDA w1 : PopulateLayers(w1, new))
         ELSE w

RECURSIVE RunSteps(_, _, _, _, _)
RunSteps(w, old, new, steps, k) ==
  IF k > Len(steps) THEN w
  ELSE Then(ChangeSceneStep(w, old, new, steps[k]),
            LAMBDA w1 : RunSteps(w1, old, new, steps, k + 1))

ClearAllForgotten == <<"exit", "setEngine", "setCurrent", "enter", "populateLayers">>

ClearAllAfterEnter ==
  <<"exit", "setEngine", "setCurrent", "enter", "clearAll", "populateLayers">>

\* The statements of changeScene, in program order.
ChangeSceneSteps ==
  <<"exit", "setEngine", "clearAll", "setCurrent", "enter", "populateLayers">>

\* changeScene(newScene)
ChangeScene(w, new) ==
  Then([w EXCEPT !.g.trace = Append(@, [old |-> w.cur, new |-> new,
                                        held |-> TotalHeld(w.layers),
                                        steps |-> <<>>])],
       LAMBDA w1 : RunSteps(w1, w.cur, new, ChangeSceneSteps, 1))

RegisterKeepsFirst(registry, name, scene) ==
  IF registry[name] = NoScene THEN [registry EXCEPT ![name] = scene] ELSE registry

\* register(name, scene): this.scenes.set(name, scene)
Register(registry, name, scene) == [registry EXCEPT ![name] = scene]

SwitchToFallsBack(w, sceneName) ==
  IF sceneName \in DOMAIN scenes /\ scenes[sceneName] # NoScene
  THEN ChangeScene(w, scenes[sceneName])
  ELSE [w EXCEPT !.layers = ClearAll(@), !.g.warned = @ \cup {"Scene not found"}]

\* switchTo(sceneName)
SwitchTo(w, sceneName) ==
  IF sceneName \in DOMAIN scenes /\ scenes[sceneName] # NoScene
  THEN ChangeScene(w, scenes[sceneName])
  ELSE [w EXCEPT !.g.warned = @ \cup {"Scene not found"}]

(***************************************************************************)
(* ConfigurableScene: clicks, transitions, update                          *)
(***************************************************************************)
\* Scene.switchScene(name): hands the request to the scene manager
SwitchScene(w, s, sceneName) == SwitchTo(w, sceneName)

\* _handleButtonAction
HandleButtonAction(w, s, action) ==
  CASE action.action = "switchScene" ->
         IF action.target # "" THEN SwitchScene(w, s, action.target) ELSE w
    [] action.action = "switchState" ->
         IF action.target # "" THEN SwitchToState(w, s, action.target) ELSE w
    [] OTHER -> w

\* Only a Button has checkClick.
HasCheckClick(entity) == EntityConfigOf(entity).type = "button"

\* Button.checkClick(x, y): the pointer is inside and an onClick is set
Clicked(entity, spot) ==
  /\ EntityConfigOf(entity).spot = spot
  /\ EntityConfigOf(entity).onClick.action # ""

\* _handleButtonClicks: the for..of over this.entities, from entry k on
RECURSIVE ClickLoop(_, _, _, _)
ClickLoop(w, s, spot, k) ==
  IF k > Len(w.sc[s].entities) THEN w
  ELSE
    LET entry == w.sc[s].entities[k]
    IN IF entry = Emptied \/ ~HasCheckClick(entry[2]) \/ ~Clicked(entry[2], spot)
       THEN ClickLoop(w, s, spot, k + 1)
       ELSE IF w.g.dispatched >= MaxDispatch THEN [w EXCEPT !.hung = TRUE]
       ELSE Then([w EXCEPT !.g.dispatched = @ + 1], LAMBDA w1 :
              Then(HandleButtonAction(w1, s, EntityConfigOf(entry[2]).onClick),
                   LAMBDA w2 : ClickLoop(w2, s, spot, k + 1)))

HandleButtonClicks(w, s, spot) == ClickLoop(w, s, spot, 1)

HandleTransitionScenesOnly(w, s, transition) ==
  IF transition.nextScene # "" THEN SwitchScene(w, s, transition.nextScene) ELSE w

\* _handleTransition
HandleTransition(w, s, transition) ==
  IF transition.nextScene # "" THEN SwitchScene(w, s, transition.nextScene)
  ELSE IF transition.nextState # "" THEN SwitchToState(w, s, transition.nextState)
  ELSE w

ApplyEasingLinear(t, easing) == t

\* _applyEasing
ApplyEasing(t, easing) ==
  CASE easing = "easeIn" -> Times(t, t)
    [] easing = "easeOut" ->
         Minus(Num(1), Times(Minus(Num(1), t), Minus(Num(1), t)))
    [] easing = "easeInOut" ->
         IF Less(t, Fraction(1, 2)) THEN Times(Num(2), Times(t, t))
         ELSE LET u == Plus(Times(Num(0 - 2), t), Num(2))
              IN Minus(Num(1), Over(Times(u, u), Num(2)))
    [] OTHER -> t

\* _lerp
Lerp(start, end, t) == Plus(start, Times(Minus(end, start), t))

\* _updateSlideIn
UpdateSlideIn(props, anim, progress) ==
  CASE anim.direction \in {"top", "bottom"} ->
         LET y == Plus(anim.initialY,
                       Times(Minus(anim.initialY, props.y),
                             Minus(Num(1), Minus(Num(1), progress))))
         IN [props EXCEPT !.y = Lerp(y, anim.initialY, progress)]
    [] anim.direction \in {"left", "right"} ->
         [props EXCEPT !.x = Lerp(props.x, anim.initialX, progress)]
    [] OTHER -> props

CompletesAnyType(progress, type) == AtLeast(progress, Num(1))

CompletesPastOne(progress, type) == Less(Num(1), progress) /\ type # "pulse"

\* _updateAnimations: the completion test
Completes(progress, type) == AtLeast(progress, Num(1)) /\ type # "pulse"

\* _updateAnimations: the progress of an animation whose elapsed time is elapsed
Progress(anim, elapsed) ==
  MathMin(Over(Minus(elapsed, anim.delay), anim.duration), Num(1))

\* _updateAnimations: the body of the loop, for one animation
UpdateAnimation(anim, dt) ==
  IF anim.completed THEN anim
  ELSE
    LET elapsed == Plus(anim.elapsed, Num(dt))
        effectiveElapsed == Minus(elapsed, anim.delay)
        progress == Progress(anim, elapsed)
        easedProgress == ApplyEasing(progress, anim.easing)
        pulse == Plus(Num(1), Times(Sin4(effectiveElapsed), Fraction(1, 10)))
        props ==
          CASE anim.type = "fadeIn" ->
                 [anim.props EXCEPT !.alpha = Times(easedProgress, anim.initialAlpha)]
            [] anim.type = "fadeOut" ->
                 [anim.props EXCEPT
                    !.alpha = Times(anim.initialAlpha, Minus(Num(1), easedProgress))]
            [] anim.type = "slideIn" -> UpdateSlideIn(anim.props, anim, easedProgress)
            [] anim.type = "scale" ->
                 [anim.props EXCEPT !.scaleX = Times(easedProgress, anim.initialScaleX),
                                    !.scaleY = Times(easedProgress, anim.initialScaleY)]
            [] anim.type = "pulse" ->
                 [anim.props EXCEPT !.scaleX = Times(anim.initialScaleX, pulse),
                                    !.scaleY = Times(anim.initialScaleY, pulse)]
            [] OTHER -> anim.props
    IN IF Less(elapsed, anim.delay) THEN [anim EXCEPT !.elapsed = elapsed]
       ELSE [anim EXCEPT !.elapsed = elapsed,
                         !.props = props,
                         !.completed = Completes(progress, anim.type)]

UpdateAnimationsRedoesCompleted(w, s, dt) ==
  [w EXCEPT !.sc[s].entityAnimations =
              [k \in 1..Len(@) |-> UpdateAnimation([@[k] EXCEPT !.completed = FALSE], dt)]]

\* _updateAnimations
UpdateAnimations(w, s, dt) ==
  [w EXCEPT !.sc[s].entityAnimations =
              [k \in 1..Len(@) |-> UpdateAnimation(@[k], dt)]]

TimerDueStrict(stateTimer, transition) ==
  transition.type = "timer" /\ stateTimer > transition.duration

\* update: the test guarding _handleTransition
TimerDue(stateTimer, transition) ==
  transition.type = "timer" /\ stateTimer >= transition.duration

\* ConfigurableScene.update(dt); spot is where the pointer is pressed, 0 if
\* inputHandler.mouse.pressed is false
ConfigurableUpdate(w, s, dt, spot) ==
  IF Len(States(s)) = 0 \/ w.sc[s].currentStateIndex + 1 > Len(States(s)) THEN w
  ELSE
    LET currentState == States(s)[w.sc[s].currentStateIndex + 1]
        w1 == [w EXCEPT !.sc[s].stateTimer = @ + dt]
    IN Then(UpdateAnimations(w1, s, dt), LAMBDA w2 :
         Then(IF spot # 0 THEN HandleButtonClicks(w2, s, spot) ELSE w2, LAMBDA w3 :
           IF w3.hung THEN w3
           ELSE IF TimerDue(w3.sc[s].stateTimer, currentState.transition)
           THEN Then([w3 EXCEPT !.g.fired = TRUE],
                     LAMBDA w4 : HandleTransition(w4, s, currentState.transition))
           ELSE w3))

\* SceneManager.update(deltaTime)
Update(w, dt, spot) ==
  IF w.cur # NoScene /\ SceneOf(w.cur).kind = "config"
  THEN ConfigurableUpdate(w, w.cur, dt, spot)
  ELSE w

\* The SWITCH_STATE message of the embedding page
SwitchStateMessage(w, stateName) ==
  IF w.cur # NoScene /\ SceneOf(w.cur).kind = "config"
  THEN SwitchToState(w, w.cur, stateName)
  ELSE w

NoCall == [op |-> "none", layer |-> "", known |-> FALSE, present |-> FALSE]

\* What an addToLayer or removeFromLayer call met: a layer name of the
\* enumeration, the entity already in that layer.
Call(op, e, l) ==
  [op |-> op, layer |-> IF op = "add" THEN l ELSE "",
   known |-> l \in LayerNames,
   present |-> l \in LayerNames /\ e \in Range(layerEntities[l])]

\* last: the operation, the scene each name was registered with last, and
\* what the operation did.
NoOperation ==
  [op |-> "none", registered |-> [n \in SceneNames |-> NoScene], g |-> NothingDone]

\* The engine as constructed: empty layers, no scene registered or current.
EngineInit ==
  /\ layerEntities = EmptyLayers
  /\ config = SceneCatalog
  /\ scenes = [n \in SceneNames |-> NoScene]
  /\ currentScene = NoScene
  /\ sceneState = [s \in {x \in SceneIds : SceneOf(x).kind = "config"} |-> NewSceneState]
  /\ hung = FALSE
  /\ last = NoOperation
  /\ lastCall = NoCall
  /\ renderLog = <<>>
  /\ rendered = FALSE

LayerInit == EngineInit

\* The engine as constructed, with the scene objects of catalog built.
StartWith(catalog) ==
  /\ layerEntities = EmptyLayers
  /\ config = catalog
  /\ scenes = [n \in SceneNames |-> NoScene]
  /\ currentScene = NoScene
  /\ sceneState = [s \in {x \in SceneIds : Document(catalog[x]).kind = "config"}
                     |-> NewSceneState]
  /\ hung = FALSE
  /\ last = NoOperation
  /\ lastCall = NoCall
  /\ renderLog = <<>>
  /\ rendered = FALSE

DoAddToLayer ==
  \E e \in TestEntities, l \in LayerNames \cup UnknownLayerNames :
    /\ TotalHeld(layerEntities) < MaxHeld
    /\ layerEntities' = AddToLayer(layerEntities, e, l)
    /\ lastCall' = Call("add", e, l)
    /\ renderLog' = <<>> /\ rendered' = FALSE
    /\ UNCHANGED sceneVars

DoRemoveFromLayer ==
  \E e \in TestEntities, l \in LayerNames \cup UnknownLayerNames :
    /\ layerEntities' = RemoveFromLayer(layerEntities, e, l)
    /\ lastCall' = Call("remove", e, l)
    /\ renderLog' = <<>> /\ rendered' = FALSE
    /\ UNCHANGED sceneVars

DoClearLayer ==
  \E l \in LayerNames \cup UnknownLayerNames :
    /\ layerEntities' = ClearLayer(layerEntities, l)
    /\ lastCall' = [NoCall EXCEPT !.op = "clearLayer"]
    /\ renderLog' = <<>> /\ rendered' = FALSE
    /\ UNCHANGED sceneVars

DoClearAll ==
  /\ layerEntities' = ClearAll(layerEntities)
  /\ lastCall' = [NoCall EXCEPT !.op = "clearAll"]
  /\ renderLog' = <<>> /\ rendered' = FALSE
  /\ UNCHANGED sceneVars

DoRender ==
  /\ renderLog' = Render(layerEntities)
  /\ rendered' = TRUE
  /\ UNCHANGED <<layerEntities, lastCall>>
  /\ UNCHANGED sceneVars

LayerNext ==
  \/ DoAddToLayer
  \/ DoRemoveFromLayer
  \/ DoClearLayer
  \/ DoClearAll
  \/ DoRender

LayerSpec == LayerInit /\ [][LayerNext]_vars

(***************************************************************************)
(* The engine driven through its scene manager                             *)
(***************************************************************************)
\* The state an operation leaves behind, and the record of what it did.
Done(w, op) ==
  /\ TotalHeld(w.layers) <= MaxSceneHeld
  /\ layerEntities' = w.layers
  /\ currentScene' = w.cur
  /\ sceneState' = [s \in DOMAIN w.sc |-> [w.sc[s] EXCEPT !.entities = MapEntries(@)]]
  /\ hung' = w.hung
  /\ last' = [op |-> op, registered |-> last.registered, g |-> w.g]
  /\ UNCHANGED <<config, layerVars>>

DoRegister ==
  \E r \in Registrations :
    /\ ~hung
    /\ scenes' = Register(scenes, r[1], r[2])
    /\ last' = [NoOperation EXCEPT !.op = "register",
                                   !.registered = [last.registered EXCEPT ![r[1]] = r[2]]]
    /\ UNCHANGED <<layerEntities, config, currentScene, sceneState, hung, layerVars>>

DoSwitchTo ==
  \E sceneName \in SceneNames \cup {"Nowhere"} :
    /\ ~hung
    /\ \E w \in {SwitchTo(Engine, sceneName)} : Done(w, "switchTo")
    /\ UNCHANGED scenes

DoChangeScene ==
  \E s \in SceneIds :
    /\ ~hung
    /\ \E w \in {ChangeScene(Engine, s)} : Done(w, "changeScene")
    /\ UNCHANGED scenes

DoUpdate ==
  \E dt \in TickLengths, spot \in {0} \cup PointerSpots :
    /\ ~hung
    /\ currentScene # NoScene
    /\ currentScene \in DOMAIN sceneState =>
         sceneState[currentScene].stateTimer + dt <= MaxTimer
    /\ \E w \in {Update(Engine, dt, spot)} : Done(w, "update")
    /\ UNCHANGED scenes

DoSwitchStateMessage ==
  \E stateName \in StateNamesAsked :
    /\ ~hung
    /\ \E w \in {SwitchStateMessage(Engine, stateName)} : Done(w, "switchState")
    /\ UNCHANGED scenes

SceneInit == EngineInit

SceneNext ==
  \/ DoRegister
  \/ DoSwitchTo
  \/ DoChangeScene
  \/ DoUpdate
  \/ DoSwitchStateMessage

SceneSpec == SceneInit /\ [][SceneNext]_vars

(***************************************************************************)
(* The engine with scene "Loop" in the place of "Intro"                    *)
(***************************************************************************)
LoopCatalog == [SceneCatalog EXCEPT ![1] = <<"Loop">>]

LoopInit == StartWith(LoopCatalog)

LoopSpec == LoopInit /\ [][SceneNext]_vars

\* The game loop keeps calling update for as long as it can be called.
LoopLiveSpec == LoopSpec /\ WF_vars(DoUpdate)

(***************************************************************************)
(* One animated entity, with the animation's parameters drawn at the start *)
(***************************************************************************)
Durations == {Undefined, Num(1), Num(2), Num(3)}

Delays == {Undefined, Num(2)}

Easings == {"", "linear", "easeIn", "easeOut", "easeInOut", "bounce"}

Directions == {"", "top", "bottom", "left", "right"}

Alphas == {Num(1), Fraction(1, 2)}

Scales == {Undefined, Num(0), Num(2)}

\* Fades of a text, slides of a sprite and of a text, scalings of a sprite.
AnimCases ==
  {<<"Anim", "text", type, duration, delay, easing, "", alpha, Undefined>> :
     type \in {"fadeIn", "fadeOut"}, duration \in Durations, delay \in Delays,
     easing \in Easings, alpha \in Alphas}
  \cup
  {<<"Anim", kind, "slideIn", duration, delay, easing, direction, Num(1), Undefined>> :
     kind \in {"sprite", "text"}, duration \in {Num(1), Num(2)}, delay \in Delays,
     easing \in {"linear", "easeIn"}, direction \in Directions}
  \cup
  {<<"Anim", "sprite", type, duration, delay, easing, "", Num(1), scale>> :
     type \in {"scale", "pulse", "spin"}, duration \in {Num(1), Num(2)},
     delay \in Delays, easing \in {"linear", "easeOut"}, scale \in Scales}

AnimInit ==
  \E key \in AnimCases :
    StartWith([s \in SceneIds |-> IF s = 1 THEN key ELSE <<"Empty">>])

AnimNext ==
  \/ DoChangeScene
  \/ DoUpdate

AnimSpec == AnimInit /\ [][AnimNext]_vars

\* The animations followed to their end: those of AnimCases with linear
\* easing, from the top or the left, on an entity of full opacity.
LiveCases ==
  {key \in AnimCases :
     key[6] = "linear" /\ key[7] \in {"", "top", "left"} /\ key[8] = Num(1)}

AnimLiveInit ==
  \E key \in LiveCases :
    StartWith([s \in SceneIds |-> IF s = 1 THEN key ELSE <<"Empty">>])

\* The game loop keeps calling update for as long as it can be called.
AnimLiveSpec == AnimLiveInit /\ [][AnimNext]_vars /\ WF_vars(DoUpdate)

(***************************************************************************)
(* One fading text, with durations and delays of every sign                *)
(***************************************************************************)
SignedDurations == {Num(0), Num(0 - 1), Num(2), Fraction(3, 2)}

SignedDelays == {Undefined, Num(0 - 1), Fraction(1, 2)}

ProgressCases ==
  {<<"Anim", "text", type, duration, delay, "linear", "", Num(1), Undefined>> :
     type \in {"fadeIn", "fadeOut"}, duration \in SignedDurations,
     delay \in SignedDelays}

ProgressInit ==
  \E key \in ProgressCases :
    StartWith([s \in SceneIds |-> IF s = 1 THEN key ELSE <<"Empty">>])

ProgressSpec == ProgressInit /\ [][AnimNext]_vars

(***************************************************************************)
(* Properties of the layer compositor (checked under LayerSpec)            *)
(***************************************************************************)
ClaimedLayerOrder ==
  <<"BG_FAR", "BG_NEAR", "VIDEO_IMAGE", "SHAPES", "SPRITES", "TEXT", "UI_BUTTONS">>

ClaimedPosition(l) == CHOOSE i \in 1..Len(ClaimedLayerOrder) : ClaimedLayerOrder[i] = l

\* The render calls made for layer l, in the order they were made.
LogOfLayer(l) ==
  LET hits == SelectSeq(renderLog, LAMBDA c : c[1] = l)
  IN [k \in 1..Len(hits) |-> hits[k][2]]

\* C1: whatever the order of the addToLayer calls, render calls entity.render
\* layer by layer in the order BG_FAR, BG_NEAR, VIDEO_IMAGE, SHAPES, SPRITES,
\* TEXT, UI_BUTTONS (no entity of a lower layer after one of a higher layer),
\* and inside a layer in the order the entities were inserted.
C1_RenderFollowsLayerOrder ==
  rendered =>
    /\ \A i, j \in 1..Len(renderLog) :
         i < j => ClaimedPosition(renderLog[i][1]) <= ClaimedPosition(renderLog[j][1])
    /\ \A l \in LayerNames :
         LogOfLayer(l) = SelectSeq(layerEntities[l], Renderable)

\* BG_FAR was filled after UI_BUTTONS and its entity is still drawn first.
C1_Witness ==
  /\ rendered
  /\ lastCall.op = "add" /\ lastCall.layer = "BG_FAR" /\ ~lastCall.present
  /\ Len(layerEntities["UI_BUTTONS"]) = 1
  /\ Len(renderLog) = 2
  /\ renderLog[1][1] = "BG_FAR" /\ renderLog[2][1] = "UI_BUTTONS"

Occurrences(s, x) == Cardinality({i \in 1..Len(s) : s[i] = x})

\* C2: a layer never holds the same entity twice, so one render call draws an
\* entity of a layer exactly once for that layer, also when it was added twice.
C2_EntityOncePerLayer ==
  /\ \A l \in LayerNames : \A e \in Range(layerEntities[l]) :
       Occurrences(layerEntities[l], e) = 1
  /\ rendered =>
       \A l \in LayerNames : \A e \in Range(layerEntities[l]) :
         Renderable(e) => Occurrences(renderLog, <<l, e>>) = 1

\* The entity held was added a second time to its layer and drawn once.
C2_Witness ==
  /\ rendered
  /\ lastCall.op = "add" /\ lastCall.present
  /\ TotalHeld(layerEntities) = 1
  /\ Len(renderLog) = 1

\* C10: addToLayer with a layer name outside the enumeration changes no layer;
\* removeFromLayer with such a name or with an entity the layer does not hold
\* changes nothing, and removing an entity a layer holds takes it out of that
\* layer and leaves the other layers as they were.
C10_UnknownLayerAndRemove ==
  \A e \in TestEntities :
    /\ \A l \in UnknownLayerNames :
         /\ AddToLayer(layerEntities, e, l) = layerEntities
         /\ RemoveFromLayer(layerEntities, e, l) = layerEntities
    /\ \A l \in LayerNames :
         LET after == RemoveFromLayer(layerEntities, e, l)
         IN IF e \in Range(layerEntities[l])
            THEN /\ \A m \in LayerNames \ {l} : after[m] = layerEntities[m]
                 /\ after[l] = SelectSeq(layerEntities[l], LAMBDA x : x # e)
                 /\ Len(after[l]) = Len(layerEntities[l]) - 1
            ELSE after = layerEntities

\* addToLayer was just called with 'MAIN' or 'UI' while the layers hold entities.
C10_Witness ==
  /\ lastCall.op = "add" /\ ~lastCall.known
  /\ lastCall.layer \in UnknownLayerNames
  /\ TotalHeld(layerEntities) >= 1

(***************************************************************************)
(* Properties of the scene manager and the scene interpreter (checked      *)
(* under SceneSpec)                                                        *)
(***************************************************************************)
\* C3: whenever changeScene reaches newScene.populateLayers, the layers hold
\* no entity at all, whatever they held when changeScene was called.
C3_LayersEmptyAtPopulate ==
  \A k \in 1..Len(last.g.atPopulate) : last.g.atPopulate[k] = 0

\* A changeScene call found entities in the layers and ran populateLayers.
C3_Witness ==
  \E k \in 1..Len(last.g.trace) :
    /\ last.g.trace[k].held > 0
    /\ "populateLayers" \in Range(last.g.trace[k].steps)
    /\ Len(last.g.atPopulate) >= k

\* C4: every entity in a layer was created by the current scene, and a scene
\* that is not current never changes the layers.
C4_OnlyCurrentSceneInLayers ==
  /\ \A l \in LayerNames : \A e \in Range(layerEntities[l]) : e[1] = currentScene
  /\ ~last.g.strayWrite

ClaimedSteps ==
  <<"exit", "setEngine", "clearAll", "setCurrent", "enter", "populateLayers">>

HookOwner(b, step) == IF step = "exit" THEN b.old ELSE b.new

\* The steps of the claimed order a changeScene(old -> new) call has to take:
\* a hook only where the scene has it.
DueSteps(b) ==
  SelectSeq(ClaimedSteps,
            LAMBDA step :
              step \in AllHooks =>
                (HookOwner(b, step) # NoScene /\ step \in SceneOf(HookOwner(b, step)).hooks))

\* C5: every changeScene call takes its steps in the order exit hook of the
\* old scene, engine binding, clearing of all layers, currentScene set, enter
\* hook, populateLayers hook; a hook a scene lacks is skipped and the other
\* steps are taken all the same.
C5_ChangeSceneOrder ==
  /\ \A k \in 1..Len(last.g.trace) : last.g.trace[k].steps = DueSteps(last.g.trace[k])
  /\ (last.op \in {"changeScene", "switchTo"} /\ last.g.trace # <<>>) =>
       currentScene = last.g.trace[1].new

\* From a scene without exit hook to one without enter hook.
C5_Witness ==
  /\ last.op = "changeScene"
  /\ Len(last.g.trace) = 1
  /\ last.g.trace[1].old = 3 /\ last.g.trace[1].new = 4
  /\ last.g.trace[1].steps = <<"setEngine", "clearAll", "setCurrent", "populateLayers">>

\* The current scene, when it is a ConfigurableScene with an active state.
Interpreting ==
  /\ ~hung
  /\ currentScene # NoScene
  /\ SceneOf(currentScene).kind = "config"
  /\ sceneState[currentScene].currentStateIndex + 1 <= Len(States(currentScene))

ActiveState == States(currentScene)[sceneState[currentScene].currentStateIndex + 1]

\* C6: with a timer transition of duration D that names an existing state, no
\* update(dt) performs the transition while stateTimer + dt < D; an update in
\* which no click handler runs then leaves the state, its name and entities
\* alone, and the first such update with stateTimer + dt >= D performs the
\* transition: the named state is current and stateTimer is 0 when it returns.
C6_TimerTransitionAtDuration ==
  (/\ Interpreting
   /\ ActiveState.transition.type = "timer"
   /\ ActiveState.transition.nextScene = ""
   /\ FindIndex(States(currentScene), ActiveState.transition.nextState) # 0) =>
    \A dt \in TickLengths, spot \in {0} \cup PointerSpots :
      LET s == currentScene
          before == sceneState[s]
      IN \A w \in {Update(Engine, dt, spot)} :
         /\ before.stateTimer + dt < ActiveState.transition.duration => ~w.g.fired
         /\ w.g.dispatched = 0 =>
           IF before.stateTimer + dt < ActiveState.transition.duration
           THEN /\ ~w.g.fired /\ w.g.activations = 0
                /\ w.sc[s].currentStateIndex = before.currentStateIndex
                /\ w.sc[s].currentStateName = before.currentStateName
                /\ w.sc[s].stateTimer = before.stateTimer + dt
           ELSE /\ w.g.fired /\ w.g.activations = 1
                /\ w.sc[s].currentStateName = ActiveState.transition.nextState
                /\ States(s)[w.sc[s].currentStateIndex + 1].name
                     = ActiveState.transition.nextState
                /\ w.sc[s].stateTimer = 0

\* The timer of A fired in an update without clicks: B is current, timer 0.
C6_Witness ==
  /\ last.op = "update" /\ last.g.fired /\ last.g.dispatched = 0
  /\ currentScene = 1
  /\ sceneState[1].currentStateName = "B"
  /\ sceneState[1].stateTimer = 0

\* What state i declares that ends up in layer l: known kinds only.
DeclaredIn(s, i, l) ==
  {e \in LayerEntries(States(s)[i].layers, 1) :
     e[1] = l /\ States(s)[i].layers[e[2] \div 10][2][e[2] % 10].type \in EntityKinds}

\* C7: when the active state (clearLayers) tracks a button whose onClick is
\* switchState to a state B (clearLayers), an update with the pointer pressed
\* on the button returns with B current and the layers holding exactly the
\* entities B declares.
C7_ClickSwitchesToTarget ==
  (Interpreting /\ ActiveState.clearLayers) =>
    \A k \in 1..Len(sceneState[currentScene].entities), dt \in TickLengths :
      LET s == currentScene
          button == sceneState[s].entities[k][2]
          onClick == EntityConfigOf(button).onClick
          target == FindIndex(States(s), onClick.target)
      IN (/\ EntityConfigOf(button).type = "button"
          /\ onClick.action = "switchState"
          /\ target # 0
          /\ States(s)[target].clearLayers) =>
         \A w \in {Update(Engine, dt, EntityConfigOf(button).spot)} :
           /\ ~w.hung
           /\ w.sc[s].currentStateName = onClick.target
           /\ \A l \in LayerNames :
                /\ \A e \in Range(w.layers[l]) : e[1] = s /\ e[2] = target
                /\ Len(w.layers[l]) = Cardinality(DeclaredIn(s, target, l))

\* C8: asking for a state no state of the scene is named after, directly, by
\* a timer transition or by a button, changes neither the state index, the
\* state name, stateTimer, the tracked entities, the animation table nor any
\* layer.
C8_UnknownStateChangesNothing ==
  (currentScene # NoScene /\ SceneOf(currentScene).kind = "config") =>
    \A n \in StateNamesAsked \cup {""} :
      FindIndex(States(currentScene), n) = 0 =>
        \A w \in {SwitchToState(Engine, currentScene, n),
                  SwitchStateMessage(Engine, n),
                  HandleTransition(Engine, currentScene, TimerToState(0, n)),
                  HandleButtonAction(Engine, currentScene, OnClick("switchState", n))} :
          /\ w.layers = layerEntities
          /\ w.cur = currentScene
          /\ w.sc = sceneState
          /\ w.g.activations = 0

\* The timer of C asked for the state "Nope" after some time in C.
C8_Witness ==
  /\ last.op = "update" /\ last.g.fired
  /\ "State not found" \in last.g.warned
  /\ currentScene = 1
  /\ sceneState[1].currentStateName = "C"
  /\ sceneState[1].stateTimer >= 3

\* C9: switchTo with a name never registered changes neither the current
\* scene, any scene's fields nor any layer and calls no exit hook; with a
\* registered name it does what changeScene does for the scene registered
\* last under the name.
C9_SwitchToByName ==
  \A n \in SceneNames \cup {"Nowhere"} :
    LET scene == IF n \in SceneNames THEN last.registered[n] ELSE NoScene
    IN \A w \in {SwitchTo(Engine, n)} :
       IF scene = NoScene
       THEN /\ w.cur = currentScene /\ w.sc = sceneState /\ w.layers = layerEntities
            /\ w.g.trace = <<>>
       ELSE /\ w.cur = scene
            /\ w.g.trace # <<>> /\ w.g.trace[1].new = scene
            /\ w.layers = ChangeScene(Engine, scene).layers
            /\ w.sc = ChangeScene(Engine, scene).sc

\* switchTo was called with an unregistered name while a scene was showing.
C9_Witness ==
  /\ last.op = "switchTo"
  /\ "Scene not found" \in last.g.warned
  /\ currentScene # NoScene
  /\ TotalHeld(layerEntities) > 0

\* The objects made from entry idx of state i of scene s, as a layer, the
\* tracked map or the animation table refers to them.
MadeFrom(s, i, idx, objects) == {e \in objects : e[1] = s /\ e[2] = i /\ e[3] = idx}

CountIn(layer, s, i, idx) ==
  Cardinality({j \in 1..Len(layer) : layer[j] \in MadeFrom(s, i, idx, Range(layer))})

\* C11: activating a state, an entity config of a kind other than sprite,
\* button, text, shape yields no object at all (none in a layer, none tracked
\* under its id, no animation for it), and every other entity config of the
\* state, before or after it, still yields one more entity in its layer, its
\* id tracked and its animation registered.
C11_UnknownKindSkipped ==
  (~hung /\ currentScene # NoScene /\ SceneOf(currentScene).kind = "config") =>
    \A i \in 1..Len(States(currentScene)) :
      \A w \in {SetupState(Engine, currentScene, i)} :
        LET s == currentScene
            state == States(s)[i]
        IN \A p \in 1..Len(state.layers) : \A k \in 1..Len(state.layers[p][2]) :
             LET layerName == state.layers[p][1]
                 entityConfig == state.layers[p][2][k]
                 idx == p * 10 + k
                 tracked == {x \in Range(MapEntries(w.sc[s].entities)) :
                               x[1] = entityConfig.id /\ x[2] \in MadeFrom(s, i, idx, {x[2]})}
                 animated == {a \in Range(w.sc[s].entityAnimations) :
                                a.entity \in MadeFrom(s, i, idx, {a.entity})}
             IN IF entityConfig.type \in {"sprite", "button", "text", "shape"}
                THEN /\ layerName \in LayerNames =>
                          CountIn(w.layers[layerName], s, i, idx)
                            = 1 + (IF state.clearLayers THEN 0
                                   ELSE CountIn(layerEntities[layerName], s, i, idx))
                     /\ entityConfig.id # "" => tracked # {}
                     /\ entityConfig.animation.type # "" => animated # {}
                ELSE /\ MadeFrom(s, i, idx, Live(w)) = {}
                     /\ ~MapHas(w.sc[s].entities, entityConfig.id)
                     /\ animated = {}

\* State C, which declares a "video" between a sprite and two buttons, was
\* just activated: the sprite and the buttons are in their layers.
C11_Witness ==
  /\ last.g.activations = 1 /\ ~hung
  /\ currentScene = 1 /\ sceneState[1].currentStateName = "C"
  /\ CountIn(layerEntities["SPRITES"], 1, 3, 11) >= 1
  /\ CountIn(layerEntities["UI_BUTTONS"], 1, 3, 31) >= 1
  /\ CountIn(layerEntities["UI_BUTTONS"], 1, 3, 32) >= 1
  /\ ~MapHas(sceneState[1].entities, "clip")

\* The entity configs of state i of scene s that yield an entity, in the
\* order the activation meets them: <<layerName, place>>.
Yielding(s, i) ==
  SelectSeq(LayerEntries(States(s)[i].layers, 1),
            LAMBDA e : States(s)[i].layers[e[2] \div 10][2][e[2] % 10].type
                         \in {"sprite", "button", "text", "shape"})

ConfigAt(s, i, idx) == States(s)[i].layers[idx \div 10][2][idx % 10]

Places(entries) == [k \in 1..Len(entries) |-> entries[k][2]]

\* The places of state i the objects of a sequence were made from.
PlacesOf(objects) == [k \in 1..Len(objects) |-> objects[k][3]]

IsPrefix(a, b) == Len(a) <= Len(b) /\ a = SubSeq(b, 1, Len(a))

\* C16: activating a state S with clearLayers leaves in the layers, the
\* tracked map and the animation table exactly what S's entity configs
\* produce; without clearLayers every entity, tracked id (unless S declares
\* the id again) and animation from before is still there, and S's entities
\* come after them in their layers.
C16_ActivationClearsOrAppends ==
  (~hung /\ currentScene # NoScene /\ SceneOf(currentScene).kind = "config") =>
    \A i \in 1..Len(States(currentScene)) :
      \A w \in {SetupState(Engine, currentScene, i)} :
        LET s == currentScene
            before == sceneState[s]
            after == w.sc[s]
            own(l) == Places(SelectSeq(Yielding(s, i), LAMBDA e : e[1] = l))
            ids == {ConfigAt(s, i, e[2]).id : e \in Range(Yielding(s, i))} \ {""}
            animatedPlaces ==
              Places(SelectSeq(Yielding(s, i),
                               LAMBDA e : ConfigAt(s, i, e[2]).animation.type # ""))
            tracked == MapEntries(after.entities)
            fresh(e) == e[1] = s /\ e[2] = i
        IN IF States(s)[i].clearLayers
           THEN /\ \A l \in LayerNames :
                     /\ PlacesOf(w.layers[l]) = own(l)
                     /\ \A e \in Range(w.layers[l]) : fresh(e)
                /\ {x[1] : x \in Range(tracked)} = ids
                /\ Len(tracked) = Cardinality(ids)
                /\ \A x \in Range(tracked) :
                     fresh(x[2]) /\ ConfigAt(s, i, x[2][3]).id = x[1]
                /\ PlacesOf([k \in 1..Len(after.entityAnimations) |->
                               after.entityAnimations[k].entity]) = animatedPlaces
                /\ \A a \in Range(after.entityAnimations) : fresh(a.entity)
           ELSE /\ \A l \in LayerNames :
                     LET added == SubSeq(w.layers[l], Len(layerEntities[l]) + 1,
                                         Len(w.layers[l]))
                     IN /\ IsPrefix(layerEntities[l], w.layers[l])
                        /\ PlacesOf(added) = own(l)
                        /\ \A e \in Range(added) :
                             fresh(e) /\ e \notin Range(layerEntities[l])
                /\ \A x \in Range(before.entities) :
                     IF x[1] \in ids
                     THEN \E y \in Range(tracked) :
                            y[1] = x[1] /\ fresh(y[2]) /\ y[2] # x[2]
                     ELSE x \in Range(tracked)
                /\ {x[1] : x \in Range(tracked)}
                     = {x[1] : x \in Range(before.entities)} \cup ids
                /\ IsPrefix(before.entityAnimations, after.entityAnimations)
                /\ Len(after.entityAnimations)
                     = Len(before.entityAnimations) + Len(animatedPlaces)

\* State C (no clearLayers) was activated on top of state B: B's button is
\* still the first in UI_BUTTONS, C's buttons follow, B's text is in TEXT.
C16_Witness ==
  /\ ~hung /\ last.g.activations = 1
  /\ currentScene = 1 /\ sceneState[1].currentStateName = "C"
  /\ Len(layerEntities["UI_BUTTONS"]) = 3
  /\ layerEntities["UI_BUTTONS"][1][2] = 2
  /\ layerEntities["UI_BUTTONS"][2][2] = 3
  /\ Len(layerEntities["TEXT"]) = 1
  /\ MapHas(sceneState[1].entities, "done")
  /\ MapHas(sceneState[1].entities, "lost")

\* C17: changeScene to a ConfigurableScene with states, entered for the first
\* time or again, leaves it in state 0 with stateTimer 0, the layers and the
\* tracked entities being those of state 0 alone; for a scene without states
\* enter, populateLayers and update change nothing.
C17_EntryStartsAtStateZero ==
  ~hung =>
    \A s \in DOMAIN sceneState :
      IF Len(States(s)) = 0
      THEN /\ Enter(Engine, s) = Engine
           /\ PopulateLayers(Engine, s) = Engine
           /\ \A dt \in TickLengths, spot \in {0} \cup PointerSpots :
                ConfigurableUpdate(Engine, s, dt, spot) = Engine
      ELSE \A w \in {ChangeScene(Engine, s)} :
             LET own(l) == Places(SelectSeq(Yielding(s, 1), LAMBDA e : e[1] = l))
                 ids == {ConfigAt(s, 1, e[2]).id : e \in Range(Yielding(s, 1))} \ {""}
                 tracked == MapEntries(w.sc[s].entities)
             IN /\ w.cur = s
                /\ w.sc[s].currentStateIndex = 0
                /\ w.sc[s].currentStateName = States(s)[1].name
                /\ w.sc[s].stateTimer = 0
                /\ \A l \in LayerNames :
                     /\ PlacesOf(w.layers[l]) = own(l)
                     /\ \A e \in Range(w.layers[l]) : e[1] = s /\ e[2] = 1
                /\ {x[1] : x \in Range(tracked)} = ids
                /\ \A x \in Range(tracked) : x[2][1] = s /\ x[2][2] = 1

(***************************************************************************)
(* Properties of the animation engine (checked under AnimSpec)             *)
(***************************************************************************)
\* The animations of the scene shown, and what each was declared as.
Animations == sceneState[1].entityAnimations

Declared(a) == EntityConfigOf(a.entity).animation

DeclaredProps(a) == EntityConfigOf(a.entity).props

\* C12: a fadeIn without delay, of duration D > 0 and linear easing, on an
\* entity of opacity A: the opacity is 0 right after setup, (e/D)*A while the
\* elapsed time e is below D, and exactly A with the animation completed from
\* the first tick with e >= D on.
C12_FadeInLinear ==
  \A k \in 1..Len(Animations) :
    LET a == Animations[k]
        D == Declared(a).duration
        A == DeclaredProps(a).alpha
    IN (/\ Declared(a).type = "fadeIn"
        /\ Declared(a).delay \in {Undefined, Num(0)}
        /\ Declared(a).easing \in {"", "linear"}
        /\ Less(Num(0), D)) =>
         /\ a.elapsed = Num(0) => a.props.alpha = Num(0)
         /\ IF Less(a.elapsed, D)
            THEN a.props.alpha = Times(Over(a.elapsed, D), A) /\ ~a.completed
            ELSE a.props.alpha = A /\ a.completed

\* Duration 2, opacity 1, one tick elapsed: the opacity is 1/2.
C12_Witness ==
  \E k \in 1..Len(Animations) :
    /\ Declared(Animations[k]).type = "fadeIn"
    /\ Declared(Animations[k]).delay = Undefined
    /\ Declared(Animations[k]).easing = "linear"
    /\ Declared(Animations[k]).duration = Num(2)
    /\ DeclaredProps(Animations[k]).alpha = Num(1)
    /\ Animations[k].elapsed = Num(1)
    /\ Animations[k].props.alpha = Fraction(1, 2)

\* The entity of animation a as its factory made it, before _setupAnimation.
Before(a) == CreatedProps(EntityConfigOf(a.entity))

\* The delay and duration an animation runs with (0 and 1 when not given).
DelayOf(a) == OrElse(Declared(a).delay, Num(0))

DurationOf(a) == OrElse(Declared(a).duration, Num(1))

Canvas == SceneOf(1).canvasSize

\* The claimed off-canvas start of the axis a slideIn moves.
ClaimedStart(a) ==
  CASE Declared(a).direction = "left" -> Minus(Minus(Num(0), Before(a).width), Num(100))
    [] Declared(a).direction = "right" -> Plus(Canvas.width, Num(100))
    [] Declared(a).direction = "top" -> Minus(Minus(Num(0), Before(a).height), Num(100))
    [] OTHER -> Plus(Canvas.height, Num(100))

Horizontal(a) == Declared(a).direction \in {"left", "right"}

\* C13: a slideIn from left, right, top or bottom holds the off-canvas start
\* value on its axis right after setup, the other axis unchanged; once
\* elapsed - delay >= duration, x and y both equal their values from before
\* the animation and the animation is completed.
C13_SlideInStartAndEnd ==
  \A k \in 1..Len(Animations) :
    LET a == Animations[k]
    IN (/\ Declared(a).type = "slideIn"
        /\ Declared(a).direction \in {"left", "right", "top", "bottom"}) =>
         /\ a.elapsed = Num(0) =>
              IF Horizontal(a)
              THEN a.props.x = ClaimedStart(a) /\ a.props.y = Before(a).y
              ELSE a.props.y = ClaimedStart(a) /\ a.props.x = Before(a).x
         /\ AtLeast(Minus(a.elapsed, DelayOf(a)), DurationOf(a)) =>
              /\ a.props.x = Before(a).x
              /\ a.props.y = Before(a).y
              /\ a.completed

\* C14: a pulse animation is never completed, whatever its delay, duration
\* and elapsed time, and every tick that brings it to or past its delay sets
\* the scale anew, to initial scale * (1 + 0.1 * sin(4 * (elapsed - delay))).
C14_PulseNeverCompletes ==
  \A k \in 1..Len(Animations) :
    LET a == Animations[k]
    IN Declared(a).type = "pulse" =>
         /\ ~a.completed
         /\ \A dt \in TickLengths :
              \A b \in {UpdateAnimation(a, dt)} :
                LET elapsed == Plus(a.elapsed, Num(dt))
                    factor == Plus(Num(1), Times(Fraction(1, 10),
                                                 Sin4(Minus(elapsed, DelayOf(a)))))
                IN /\ ~b.completed
                   /\ b.elapsed = elapsed
                   /\ AtLeast(elapsed, DelayOf(a)) =>
                        /\ b.props.scaleX = Times(a.initialScaleX, factor)
                        /\ b.props.scaleY = Times(a.initialScaleY, factor)

\* A pulse of duration 1 after three ticks: still running, the scale changed.
C14_Witness ==
  \E k \in 1..Len(Animations) :
    /\ Declared(Animations[k]).type = "pulse"
    /\ DurationOf(Animations[k]) = Num(1)
    /\ Animations[k].elapsed = Num(3)
    /\ ~Animations[k].completed
    /\ Animations[k].props.scaleX # Before(Animations[k]).scaleX

\* The claimed value of each easing at progress t = n / d.
ClaimedEasing(t, easing) ==
  LET n == t[1]
      d == t[2]
  IN CASE easing = "easeIn" -> Fraction(n * n, d * d)
       [] easing = "easeOut" -> Fraction(d * d - (d - n) * (d - n), d * d)
       [] easing = "easeInOut" ->
            IF 2 * n < d THEN Fraction(2 * n * n, d * d)
            ELSE Fraction(2 * d * d - (2 * d - 2 * n) * (2 * d - 2 * n), 2 * d * d)
       [] OTHER -> t

ProgressGrid == {Fraction(k, EasingSteps) : k \in 0..EasingSteps} \cup {Fraction(1, 2)}

\* The easing function against its claimed values on the grid.
EasingOnGrid ==
  /\ \A easing \in Easings :
       /\ \A t \in ProgressGrid : ApplyEasing(t, easing) = ClaimedEasing(t, easing)
       /\ ApplyEasing(Num(0), easing) = Num(0)
       /\ ApplyEasing(Num(1), easing) = Num(1)
       /\ \A t, u \in ProgressGrid :
            Less(t, u) => ~Less(ApplyEasing(u, easing), ApplyEasing(t, easing))
  /\ ApplyEasing(Fraction(1, 2), "easeIn") = Fraction(1, 4)
  /\ ApplyEasing(Fraction(1, 2), "easeOut") = Fraction(3, 4)
  /\ ApplyEasing(Fraction(1, 2), "bounce") = Fraction(1, 2)

\* C15: on [0,1] the easing function is t for linear, t*t for easeIn,
\* 1-(1-t)^2 for easeOut, 2t^2 below 1/2 and 1-(-2t+2)^2/2 from 1/2 on for
\* easeInOut, and t for a name it does not know; easeIn(1/2) = 1/4,
\* easeOut(1/2) = 3/4; every easing maps 0 to 0 and 1 to 1 and does not
\* decrease; a running fadeIn shows the eased progress times its opacity.
C15_EasingValues ==
  /\ EasingOnGrid
  /\ \A k \in 1..Len(Animations) :
       LET a == Animations[k]
           progress == MathMin(Over(Minus(a.elapsed, DelayOf(a)), DurationOf(a)), Num(1))
       IN (Declared(a).type = "fadeIn" /\ AtLeast(a.elapsed, DelayOf(a))
             /\ a.elapsed # Num(0)) =>
            a.props.alpha
              = Times(ClaimedEasing(progress, Declared(a).easing), DeclaredProps(a).alpha)

\* A fadeIn with easeOut, halfway through: the opacity is 3/4 of 1.
C15_Witness ==
  \E k \in 1..Len(Animations) :
    /\ Declared(Animations[k]).type = "fadeIn"
    /\ Declared(Animations[k]).easing = "easeOut"
    /\ Declared(Animations[k]).duration = Num(2)
    /\ Declared(Animations[k]).delay = Undefined
    /\ Animations[k].elapsed = Num(1)
    /\ Animations[k].props.alpha = Fraction(3, 4)

\* C18: once an animation is completed (never a pulse), no update changes
\* its elapsed time, its completed flag or any attribute of its entity: the
\* elapsed time is the one of the completing tick, whatever time the state
\* has been active since.
C18_CompletedStaysPut ==
  \A k \in 1..Len(Animations) :
    LET a == Animations[k]
    IN a.completed =>
         /\ Declared(a).type # "pulse"
         /\ \E dt \in TickLengths :
              Less(Minus(a.elapsed, Num(dt)), Plus(DelayOf(a), DurationOf(a)))
         /\ \A dt \in TickLengths, spot \in {0} \cup PointerSpots :
              /\ UpdateAnimations(Engine, 1, dt).sc[1].entityAnimations[k] = a
              /\ currentScene = 1 =>
                   \A w \in {Update(Engine, dt, spot)} :
                     /\ w.sc[1].entityAnimations[k] = a
                     /\ w.sc[1].stateTimer = sceneState[1].stateTimer + dt

\* A fadeIn of duration 1 completed on the first tick; two more ticks later
\* its elapsed time is still 1 and the opacity the one set then.
C18_Witness ==
  \E k \in 1..Len(Animations) :
    /\ Declared(Animations[k]).type = "fadeIn"
    /\ Animations[k].completed
    /\ Animations[k].elapsed = Num(1)
    /\ Animations[k].props.alpha = DeclaredProps(Animations[k]).alpha
    /\ currentScene = 1 /\ last.op = "update"
    /\ sceneState[1].stateTimer = 3

\* The appearance a setup is claimed to force: opacity 0 for fadeIn, scale 0
\* for scale, the off-canvas position for slideIn (from the top when no
\* direction is given), the entity as it was for fadeOut and pulse.
ClaimedStartLook(a) ==
  LET type == Declared(a).type
      direction == IF Declared(a).direction = "" THEN "top" ELSE Declared(a).direction
      canvas == SceneOf(a.entity[1]).canvasSize
  IN CASE type = "fadeIn" -> [Before(a) EXCEPT !.alpha = Num(0)]
       [] type = "scale" -> [Before(a) EXCEPT !.scaleX = Num(0), !.scaleY = Num(0)]
       [] type = "slideIn" /\ direction = "top" ->
            [Before(a) EXCEPT !.y = Minus(Minus(Num(0), Before(a).height), Num(100))]
       [] type = "slideIn" /\ direction = "bottom" ->
            [Before(a) EXCEPT !.y = Plus(canvas.height, Num(100))]
       [] type = "slideIn" /\ direction = "left" ->
            [Before(a) EXCEPT !.x = Minus(Minus(Num(0), Before(a).width), Num(100))]
       [] type = "slideIn" /\ direction = "right" ->
            [Before(a) EXCEPT !.x = Plus(canvas.width, Num(100))]
       [] OTHER -> Before(a)

\* C19: while the elapsed time of an animation is below its delay, the
\* entity keeps the appearance forced at setup and the animation is not
\* completed, also after the next tick if that stays below the delay; a tick
\* that reaches the delay applies the effect (elapsed - delay >= 0 is what
\* the progress is computed from).
C19_NothingBeforeDelay ==
  \A k \in 1..Len(Animations) :
    LET a == Animations[k]
    IN Less(a.elapsed, DelayOf(a)) =>
         /\ a.props = ClaimedStartLook(a)
         /\ ~a.completed
         /\ \A dt \in TickLengths :
              \A b \in {UpdateAnimation(a, dt)} :
                /\ b.elapsed = Plus(a.elapsed, Num(dt))
                /\ IF Less(b.elapsed, DelayOf(a))
                   THEN b.props = a.props /\ ~b.completed
                   ELSE LET p == MathMin(Over(Minus(b.elapsed, DelayOf(a)),
                                              DurationOf(a)), Num(1))
                        IN /\ b.completed = (AtLeast(p, Num(1)) /\ Declared(a).type # "pulse")
                           /\ Declared(a).type = "fadeIn" =>
                                b.props.alpha
                                  = Times(ClaimedEasing(p, Declared(a).easing), Before(a).alpha)
                           /\ Declared(a).type = "fadeOut" =>
                                b.props.alpha
                                  = Times(Before(a).alpha,
                                          Minus(Num(1), ClaimedEasing(p, Declared(a).easing)))

\* A fadeIn of an entity of opacity 1/2 with delay 2, after one tick of
\* length 1: the opacity is still 0.
C19_Witness ==
  \E k \in 1..Len(Animations) :
    /\ Declared(Animations[k]).type = "fadeIn"
    /\ Declared(Animations[k]).delay = Num(2)
    /\ DeclaredProps(Animations[k]).alpha = Fraction(1, 2)
    /\ Animations[k].elapsed = Num(1)
    /\ last.op = "update"
    /\ Animations[k].props.alpha = Num(0)
    /\ ~Animations[k].completed

Magnitude(v) == IF Less(v, Num(0)) THEN Minus(Num(0), v) ELSE v

\* The coordinate a slideIn moves, and the one it has to leave alone.
Moving(a, props) == IF Horizontal(a) THEN props.x ELSE props.y

Resting(a, props) == IF Horizontal(a) THEN props.y ELSE props.x

\* C20: for a slideIn from top, bottom, left or right, no tick increases the
\* distance of the moving coordinate to its resting value or takes it to the
\* other side of the resting value, a tick with eased progress 0 does not
\* bring it to the resting value, and the other coordinate is never changed.
C20_SlideInApproaches ==
  \A k \in 1..Len(Animations) :
    LET a == Animations[k]
        rest == Moving(a, Before(a))
    IN (/\ Declared(a).type = "slideIn"
        /\ Declared(a).direction \in {"left", "right", "top", "bottom"}) =>
         \A dt \in TickLengths :
           \A b \in {UpdateAnimation(a, dt)} :
             LET was == Minus(Moving(a, a.props), rest)
                 is == Minus(Moving(a, b.props), rest)
                 progress == MathMin(Over(Minus(b.elapsed, DelayOf(a)), DurationOf(a)),
                                     Num(1))
                 eased == ClaimedEasing(progress, Declared(a).easing)
             IN /\ ~Less(Magnitude(was), Magnitude(is))
                /\ ~Less(Times(was, is), Num(0))
                /\ (eased = Num(0) /\ was # Num(0)) => is # Num(0)
                /\ Resting(a, b.props) = Resting(a, Before(a))

\* The progress the last tick of animation a is claimed to have used.
ClaimedProgress(a) ==
  MathMin(Over(Minus(a.elapsed, DelayOf(a)), DurationOf(a)), Num(1))

\* C21: a scale animation on an entity of scale (sx, sy) before the
\* animation, 0 included: both scales are 0 right after setup, eased progress
\* times sx and times sy after every tick past the delay, and sx and sy once
\* the animation is completed.
C21_ScaleToInitialScale ==
  \A k \in 1..Len(Animations) :
    LET a == Animations[k]
        sx == Before(a).scaleX
        sy == Before(a).scaleY
        eased == ClaimedEasing(ClaimedProgress(a), Declared(a).easing)
    IN Declared(a).type = "scale" =>
         /\ a.elapsed = Num(0) => a.props.scaleX = Num(0) /\ a.props.scaleY = Num(0)
         /\ (a.elapsed # Num(0) /\ AtLeast(a.elapsed, DelayOf(a))) =>
              /\ a.props.scaleX = Times(eased, sx)
              /\ a.props.scaleY = Times(eased, sy)
         /\ a.completed => a.props.scaleX = sx /\ a.props.scaleY = sy

\* clamp(v, 0, 1)
Clamp01(v) ==
  IF ~IsNumber(v) THEN NaN
  ELSE IF Less(v, Num(0)) THEN Num(0)
  ELSE IF Less(Num(1), v) THEN Num(1)
  ELSE v

\* clamp((elapsed - delay) / duration, 0, 1) with the declared duration and
\* delay (no delay declared: 0); a positive time over duration 0 is clamped
\* to 1.
ClaimedClamp(a, elapsed) ==
  LET delay == IfDefined(Declared(a).delay, Num(0))
      duration == Declared(a).duration
      effective == Minus(elapsed, delay)
  IN IF duration = Num(0)
     THEN (IF Less(Num(0), effective) THEN Num(1) ELSE NaN)
     ELSE Clamp01(Over(effective, duration))

\* C22: on every tick that brings an animation to or past its declared
\* delay, the progress used is clamp((elapsed - delay) / duration, 0, 1) for
\* the declared duration and delay, whatever their sign, and so lies in [0,1].
C22_ProgressClamped ==
  \A k \in 1..Len(Animations) :
    LET a == Animations[k]
    IN \A dt \in TickLengths :
         LET elapsed == Plus(a.elapsed, Num(dt))
             progress == Progress(a, elapsed)
         IN (/\ ~a.completed
             /\ IsNumber(Declared(a).duration)
             /\ AtLeast(elapsed, IfDefined(Declared(a).delay, Num(0)))) =>
              /\ progress = ClaimedClamp(a, elapsed)
              /\ AtLeast(progress, Num(0))
              /\ AtLeast(Num(1), progress)

(***************************************************************************)
(* Properties of one update call and of the scene's bookkeeping (checked   *)
(* under SceneSpec)                                                        *)
(***************************************************************************)
\* The engine between two operations, once operation w has returned.
Settled(w) ==
  [w EXCEPT !.sc = [s \in DOMAIN w.sc |-> [w.sc[s] EXCEPT !.entities = MapEntries(@)]],
            !.g = NothingDone]

\* The tracked buttons under the pointer at spot.
Under(entities, spot) ==
  {x \in Range(entities) : HasCheckClick(x[2]) /\ Clicked(x[2], spot)}

InLayers == UNION {Range(layerEntities[l]) : l \in LayerNames}

\* The layer name entity e was declared under.
DeclaredLayer(e) == SceneOf(e[1]).states[e[2]].layers[e[3] \div 10][1]

\* C24: while a ConfigurableScene is active, every entity of its tracked map
\* and every entity with an animation is in some layer, and no entity
\* declared under a layer name outside the enumeration is tracked or
\* animated.
C24_TrackedAreInLayers ==
  Interpreting =>
    LET tracked == {x[2] : x \in Range(sceneState[currentScene].entities)}
        animated == {a.entity : a \in Range(sceneState[currentScene].entityAnimations)}
    IN /\ tracked \subseteq InLayers
       /\ animated \subseteq InLayers
       /\ \A e \in tracked \cup animated : DeclaredLayer(e) \in LayerNames

\* C25: one update call activates at most one state, also when the state a
\* click activates declares a button under the pointer, and when a click
\* activated a state the timer transition of the state the update started in
\* is not performed in the same call.
C25_OneActivationPerUpdate ==
  Interpreting =>
    \A dt \in TickLengths, spot \in {0} \cup PointerSpots :
      \A w \in {Update(Engine, dt, spot)} :
        /\ w.g.activations <= 1
        /\ spot # 0 =>
             \A c \in {HandleButtonClicks(Engine, currentScene, spot)} :
               c.g.activations > 0 => ~w.g.fired

\* C26: every update call returns, whatever the configuration and the
\* pointer: none is left iterating over the tracked entities for ever.
C26_UpdateReturns ==
  /\ ~hung
  /\ Interpreting =>
       \A dt \in TickLengths, spot \in {0} \cup PointerSpots :
         \A w \in {Update(Engine, dt, spot)} : ~w.hung

\* C27: once a ConfigurableScene with at least one state has been entered,
\* currentStateIndex is an index of states and getCurrentStateName() is the
\* name of the state at that index, whatever updates, transitions, clicks,
\* failed switches and re-entries followed.
C27_IndexAndNameAgree ==
  \A s \in DOMAIN sceneState :
    (/\ Len(States(s)) > 0
     /\ (s = currentScene \/ sceneState[s].currentStateName # "")) =>
      /\ sceneState[s].currentStateIndex \in 0..(Len(States(s)) - 1)
      /\ States(s)[sceneState[s].currentStateIndex + 1].name
           = sceneState[s].currentStateName

\* The scene was left in state B and entered again: index 0, name "A".
C27_Witness ==
  /\ last.op = "changeScene"
  /\ Len(last.g.trace) = 1
  /\ last.g.trace[1].old = 1 /\ last.g.trace[1].new = 1
  /\ last.g.trace[1].held = 2
  /\ currentScene = 1
  /\ sceneState[1].currentStateIndex = 0
  /\ sceneState[1].currentStateName = "A"

(***************************************************************************)
(* Progress of the scene interpreter (checked under LoopLiveSpec)          *)
(***************************************************************************)
\* The active state declares a timer transition naming a state that exists.
TimerState ==
  /\ Interpreting
  /\ ActiveState.transition.type = "timer"
  /\ ActiveState.transition.nextScene = ""
  /\ FindIndex(States(currentScene), ActiveState.transition.nextState) # 0

\* Such a state is active and the last operation activated no state: the
\* state has been waiting for its timer since before that operation.
Waiting == TimerState /\ last.g.activations = 0

\* An update without a pressed pointer in a state without transition keeps
\* the scene, the state and its name and activates nothing.
NoTransitionStays ==
  (Interpreting /\ ActiveState.transition.type # "timer") =>
    \A dt \in TickLengths :
      \A w \in {Update(Engine, dt, 0)} :
        /\ w.cur = currentScene
        /\ w.g.activations = 0 /\ ~w.g.fired
        /\ w.sc[currentScene].currentStateIndex
             = sceneState[currentScene].currentStateIndex
        /\ w.sc[currentScene].currentStateName
             = sceneState[currentScene].currentStateName

\* C28: while update keeps being called, an active state with a timer
\* transition naming an existing state is eventually left or activated
\* again (by its timer, unless a click or a scene switch comes first), and
\* an update without a click never leaves a state that has no transition.
C28_TimerStateIsLeft ==
  /\ Waiting ~> ~Waiting
  /\ []NoTransitionStays

\* The timer of state P fired in an update without a click: Q is active.
C28_Witness ==
  /\ last.op = "update" /\ last.g.fired /\ last.g.activations = 1
  /\ last.g.dispatched = 0 /\ last.g.warned = {}
  /\ currentScene = 1
  /\ sceneState[1].currentStateIndex = 1
  /\ sceneState[1].stateTimer = 0
  /\ TotalHeld(layerEntities) = 1

(***************************************************************************)
(* Progress of the animations (checked under AnimLiveSpec)                 *)
(***************************************************************************)
\* Animation a is of a type that ends, with a delay and a duration the
\* state's time can reach.
Ending(a) ==
  /\ Declared(a).type \in {"fadeIn", "fadeOut", "slideIn", "scale"}
  /\ AtLeast(DelayOf(a), Num(0))
  /\ Less(Num(0), DurationOf(a))
  /\ AtLeast(Num(MaxTimer), Plus(DelayOf(a), DurationOf(a)))

\* Such an animation is in the table, not completed, and was there before
\* the last operation (which activated no state).
Unfinished ==
  /\ \E k \in 1..Len(Animations) : Ending(Animations[k]) /\ ~Animations[k].completed
  /\ last.g.activations = 0

\* C29: while update keeps being called, an animation of type fadeIn,
\* fadeOut, slideIn or scale with a delay >= 0 and a duration > 0 does not
\* stay in the table uncompleted for ever: it is completed, or a clearing
\* activation or the scene's exit drops it.
C29_AnimationsEnd == Unfinished ~> ~Unfinished

\* A slideIn with delay 2 and duration 1 was completed by the third tick.
C29_Witness ==
  \E k \in 1..Len(Animations) :
    /\ Ending(Animations[k])
    /\ Declared(Animations[k]).type = "slideIn"
    /\ DelayOf(Animations[k]) = Num(2)
    /\ DurationOf(Animations[k]) = Num(1)
    /\ Animations[k].completed
    /\ Animations[k].elapsed = Num(3)
    /\ last.op = "update" /\ last.g.activations = 0

====
